---- MODULE Spec2Model ----
(***************************************************************************)
(* Stoploss-order handling of the FTX exchange subclass                    *)
(* (freqtrade/exchange/ftx.py): stoploss_adjust, stoploss,                 *)
(* fetch_stoploss_order, cancel_stoploss_order, get_order_id_conditional,  *)
(* each wrapped by the retrier decorator where the source does so.         *)
(***************************************************************************)
EXTENDS Integers, Sequences, FiniteSets, TLC

VARIABLES dry_run, stops, dry_orders, op, pc, args, count, attempts, trace,
          last_exc, raised, result, request, matched, was_canceled, seen,
          lev_exc, heap, thr, handle, pf

vars == <<dry_run, stops, dry_orders, op, pc, args, count, attempts, trace,
          last_exc, raised, result, request, matched, was_canceled, seen,
          lev_exc, heap, thr, handle, pf>>

callvars == <<op, pc, args, count, attempts, trace, last_exc, raised,
              result, request, matched, was_canceled, seen, lev_exc>>

(***************************************************************************)
(* Bounds of the model                                                     *)
(***************************************************************************)
MaxStops == 2
MaxDryOrders == 1
MaxPrice == 3

StopIds == {"A", "C"}
ResultIds == {"B"}
Sides == {"sell", "buy", "other"}
OrderTypes == {"stop", "market", "limit"}

\* a key that is missing from a dict, and a key whose value is None
Absent == "<absent>"
Null == "<null>"
\* a missing key whose value would be a number
AbsentNum == 0 - 1

(***************************************************************************)
(* Order records (python dicts with the keys the code reads or writes)     *)
(***************************************************************************)
Order(id, type, status, orderId, id_stop, status_stop) ==
    [id |-> id, type |-> type, status |-> status, orderId |-> orderId,
     id_stop |-> id_stop, status_stop |-> status_stop]

\* {} : a dict without any key
EmptyDict == Order(Absent, Absent, Absent, Absent, Absent, Absent)

\* dict.get(key): a missing key reads as None
Get(v) == IF v = Absent THEN Null ELSE v

(***************************************************************************)
(* ccxt error classes raised by the transport, with their base class       *)
(***************************************************************************)
CcxtErrors == {"BaseError", "ExchangeError", "InsufficientFunds", "InvalidOrder",
               "OrderNotFound", "NetworkError", "DDoSProtection"}

CcxtBase == [BaseError |-> "Exception", ExchangeError |-> "BaseError",
             InsufficientFunds |-> "ExchangeError", InvalidOrder |-> "ExchangeError",
             OrderNotFound |-> "InvalidOrder", NetworkError |-> "BaseError",
             DDoSProtection |-> "NetworkError"]

\* isinstance(e, cls) for an exception of class e
RECURSIVE IsInstance(_, _)
IsInstance(e, cls) ==
    IF e = cls THEN TRUE
    ELSE IF e \notin DOMAIN CcxtBase THEN FALSE
    ELSE IsInstance(CcxtBase[e], cls)

\* a try statement: the first except clause whose classes match wins;
\* an exception no clause matches propagates unchanged
RECURSIVE FirstMatch(_, _)
FirstMatch(handlers, e) ==
    IF handlers = <<>> THEN e
    ELSE IF \E cls \in Head(handlers)[1] : IsInstance(e, cls) THEN Head(handlers)[2]
    ELSE FirstMatch(Tail(handlers), e)

(***************************************************************************)
(* The except clauses of the three decorated methods, in source order      *)
(***************************************************************************)
StoplossHandlersNoFunds ==
    << <<{"InvalidOrder"}, "InvalidOrderException">>,
       <<{"DDoSProtection"}, "DDosProtection">>,
       <<{"NetworkError", "ExchangeError"}, "TemporaryError">>,
       <<{"BaseError"}, "OperationalException">> >>

StoplossHandlers ==
    << <<{"InsufficientFunds"}, "InsufficientFundsError">>,
       <<{"InvalidOrder"}, "InvalidOrderException">>,
       <<{"DDoSProtection"}, "DDosProtection">>,
       <<{"NetworkError", "ExchangeError"}, "TemporaryError">>,
       <<{"BaseError"}, "OperationalException">> >>

FetchHandlersAllTemporary ==
    << <<{"InvalidOrder"}, "InvalidOrderException">>,
       <<{"DDoSProtection"}, "DDosProtection">>,
       <<{"NetworkError", "ExchangeError", "BaseError"}, "TemporaryError">> >>

FetchHandlers ==
    << <<{"InvalidOrder"}, "InvalidOrderException">>,
       <<{"DDoSProtection"}, "DDosProtection">>,
       <<{"NetworkError", "ExchangeError"}, "TemporaryError">>,
       <<{"BaseError"}, "OperationalException">> >>

CancelHandlersNetworkFirst ==
    << <<{"InvalidOrder"}, "InvalidOrderException">>,
       <<{"NetworkError", "ExchangeError"}, "TemporaryError">>,
       <<{"DDoSProtection"}, "DDosProtection">>,
       <<{"BaseError"}, "OperationalException">> >>

CancelHandlersWithFunds ==
    << <<{"InsufficientFunds"}, "InsufficientFundsError">>,
       <<{"InvalidOrder"}, "InvalidOrderException">>,
       <<{"DDoSProtection"}, "DDosProtection">>,
       <<{"NetworkError", "ExchangeError"}, "TemporaryError">>,
       <<{"BaseError"}, "OperationalException">> >>

CancelHandlers ==
    << <<{"InvalidOrder"}, "InvalidOrderException">>,
       <<{"DDoSProtection"}, "DDosProtection">>,
       <<{"NetworkError", "ExchangeError"}, "TemporaryError">>,
       <<{"BaseError"}, "OperationalException">> >>

(***************************************************************************)
(* What one execution of a method body produces: a returned value or a     *)
(* raised exception, the transport error behind it (cexc), the             *)
(* collaborators it invoked in order (trace), the order it submitted (req) *)
(* and the number of id matches it found (n, fetch only).                  *)
(***************************************************************************)
NoRequest == [to |-> "nobody", type |-> Absent, side |-> Absent, amount |-> 0,
              stopPrice |-> 0, orderPrice |-> AbsentNum]

Returns(v, tr, req, n) ==
    [kind |-> "return", val |-> v, exc |-> "None", cexc |-> "None",
     trace |-> tr, req |-> req, n |-> n]

\* an exception e raised inside a try block guarded by handlers
Raises(handlers, e, tr, req, n) ==
    [kind |-> "raise", val |-> EmptyDict, exc |-> FirstMatch(handlers, e),
     cexc |-> IF e \in CcxtErrors THEN e ELSE "None",
     trace |-> tr, req |-> req, n |-> n]

(***************************************************************************)
(* Collaborators of the base Exchange class                                *)
(***************************************************************************)
PriceTick == 500
AmountStep == 10
DefaultLimitRatio == 99

\* prices are counted in hundredths of the quote unit, ratios in percent
price_to_precision(pair, price) == ((2 * price + PriceTick) \div (2 * PriceTick)) * PriceTick

amount_to_precision(pair, amount) == (amount \div AmountStep) * AmountStep

DryIdPool == <<"dry1", "dry2", "dry3", "dry4">>
DryIds == {DryIdPool[i] : i \in 1..MaxDryOrders}

create_dry_run_order(pair, ordertype, side, amount, rate, leverage, id) ==
    Order(id, ordertype, "open", Absent, Absent, Absent)

fetch_dry_run_order(order_id) ==
    IF order_id \in dry_orders
    THEN Returns(Order(order_id, "stop", "open", Absent, Absent, Absent),
                 <<"fetch_dry_run_order">>, NoRequest, 0)
    ELSE Raises(<<>>, "InvalidOrderException", <<"fetch_dry_run_order">>, NoRequest, 0)

(***************************************************************************)
(* Ftx.stoploss_adjust                                                     *)
(***************************************************************************)
\* float(x) of a number, or of a string of decimal digits
RECURSIVE DigitsToNat(_)
DigitsToNat(ds) ==
    IF ds = <<>> THEN 0
    ELSE 10 * DigitsToNat(SubSeq(ds, 1, Len(ds) - 1)) + ds[Len(ds)]

Float(x) == IF x.str THEN DigitsToNat(x.digits) ELSE x.num

stoploss_adjust_inclusive(stop_loss, order, side) ==
    order.type = "stop" /\
        ( (side = "sell" /\ stop_loss >= Float(order.price)) \/
          (side = "buy" /\ stop_loss <= Float(order.price)) )

stoploss_adjust(stop_loss, order, side) ==
    order.type = "stop" /\
        ( (side = "sell" /\ stop_loss > Float(order.price)) \/
          (side = "buy" /\ stop_loss < Float(order.price)) )

(***************************************************************************)
(* Ftx.get_order_id_conditional                                            *)
(***************************************************************************)
safe_value_fallback2(dict1, dict2, key1, key2) ==
    IF dict1[key1] # Absent /\ dict1[key1] # Null THEN dict1[key1]
    ELSE IF dict2[key2] # Absent /\ dict2[key2] # Null THEN dict2[key2]
    ELSE Null

get_order_id_plain(order) == order.id

get_order_id_untyped(order) ==
    safe_value_fallback2(order, order, "id_stop", "id")

get_order_id_conditional(order) ==
    IF order.type = "stop"
    THEN safe_value_fallback2(order, order, "id_stop", "id")
    ELSE order.id

(***************************************************************************)
(* The exchange transport (self._api).  Each call either raises a ccxt     *)
(* error or answers; the answer is an input of the method body.            *)
(***************************************************************************)
\* fetch_orders(pair, None, {'type': 'stop'}): the stop orders of the pair
api_fetch_orders(pair) == stops

\* fetch_order(id, pair): the order the exchange keeps under that id;
\* an id the exchange does not know cannot be answered
api_fetch_order(id, pair, answer) ==
    IF answer.exc # "None" THEN [exc |-> answer.exc, val |-> EmptyDict]
    ELSE IF id \notin ResultIds THEN [exc |-> "OrderNotFound", val |-> EmptyDict]
    ELSE [exc |-> "None",
          val |-> Order(id, answer.type, answer.status, Absent, Absent, Absent)]

\* What the collaborators answer during one execution of a method body.
\* The answer to a call that an earlier failure keeps from being made is
\* left out of the enumeration.
CreateOrderAnswers ==
    {[exc |-> "None", id |-> id] : id \in StopIds}
    \cup {[exc |-> e, id |-> Null] : e \in CcxtErrors}

StoplossAnswers(dry_ids) ==
    {[lev_prep |-> e, create_order |-> [exc |-> "None", id |-> Null], dry_id |-> did] :
        e \in CcxtErrors, did \in dry_ids}
    \cup {[lev_prep |-> "None", create_order |-> co, dry_id |-> did] :
            co \in CreateOrderAnswers, did \in dry_ids}

FetchOrderAnswers ==
    {[exc |-> "None", type |-> t, status |-> st] :
        t \in {"market", "limit"}, st \in {"open", "closed"}}
    \cup {[exc |-> e, type |-> Absent, status |-> Absent] : e \in CcxtErrors}

FetchAnswers ==
    {[fetch_orders |-> e, fetch_order |-> [exc |-> "None", type |-> Absent, status |-> Absent]] :
        e \in CcxtErrors}
    \cup {[fetch_orders |-> "None", fetch_order |-> o1] : o1 \in FetchOrderAnswers}

CancelAnswers(order_id) ==
    {[cancel_order |-> [exc |-> "None", val |-> ack]] :
        ack \in {EmptyDict, Order(order_id, "stop", "canceled", Absent, Absent, Absent)}}
    \cup {[cancel_order |-> [exc |-> e, val |-> EmptyDict]] : e \in CcxtErrors}

(***************************************************************************)
(* Ftx.stoploss                                                            *)
(***************************************************************************)
\* the execution limit price, from the trigger price as the caller gave it
LimitRateSell(stop_price, limit_price_pct, side) ==
    (stop_price * limit_price_pct) \div 100

LimitRate(stop_price, limit_price_pct, side) ==
    IF side = "sell"
    THEN (stop_price * limit_price_pct) \div 100
    ELSE (stop_price * (200 - limit_price_pct)) \div 100

\* order_types.get('stoploss', 'market') == 'limit'
IsLimitNotMarket(order_types) == order_types.stoploss # "market"

IsLimit(order_types) ==
    (IF order_types.stoploss = Absent THEN "market" ELSE order_types.stoploss) = "limit"

\* Dicts are objects: heap maps a reference to the dict it denotes.  "self"
\* is self._params; every call owns the reference of the dict it creates.
Callers == {"t1", "t2"}
Refs == {"self"} \cup Callers
DefaultParams == [stopPrice |-> AbsentNum, orderPrice |-> AbsentNum]

\* params = self._params.copy(): the reference the local name is bound to
ParamsRefShared(t) == "self"

ParamsRef(t) == t

CopyParams(h, t) == [h EXCEPT ![ParamsRef(t)] = h["self"]]

\* params['orderPrice'] = limit_rate (limit only); params['stopPrice'] = stop_price
SetParams(h, t, order_types, limit_rate, stop_price) ==
    [h EXCEPT ![ParamsRef(t)] =
        [orderPrice |-> IF IsLimit(order_types) THEN limit_rate ELSE @.orderPrice,
         stopPrice |-> stop_price]]

\* the local dict is dropped when the call ends
DropLocal(h, t) == [h EXCEPT ![t] = DefaultParams]

\* amount = self.amount_to_precision(pair, amount), inside the try block
LiveAmountRaw(pair, amount) == amount

LiveAmount(pair, amount) == amount_to_precision(pair, amount)

\* self._lev_prep(...) and then self._api.create_order(...)
SubmitBeforePrep(ordertype, req, api) ==
    IF api.create_order.exc # "None"
    THEN Raises(StoplossHandlers, api.create_order.exc, <<"create_order">>, req, 0)
    ELSE IF api.lev_prep # "None"
    THEN Raises(StoplossHandlers, api.lev_prep, <<"create_order", "_lev_prep">>, req, 0)
    ELSE Returns(Order(api.create_order.id, ordertype, "open", Absent, Absent, Absent),
                 <<"create_order", "_lev_prep">>, req, 0)

PrepAndSubmit(ordertype, req, api) ==
    IF api.lev_prep # "None"
    THEN Raises(StoplossHandlers, api.lev_prep, <<"_lev_prep">>, NoRequest, 0)
    ELSE IF api.create_order.exc # "None"
    THEN Raises(StoplossHandlers, api.create_order.exc,
                <<"_lev_prep", "create_order">>, req, 0)
    ELSE Returns(Order(api.create_order.id, ordertype, "open", Absent, Absent, Absent),
                 <<"_lev_prep", "create_order">>, req, 0)

stoploss(pair, amount, stop_price, order_types, side, leverage, api) ==
    LET limit_price_pct == IF order_types.ratio = AbsentNum THEN DefaultLimitRatio
                           ELSE order_types.ratio
        limit_rate == LimitRate(stop_price, limit_price_pct, side)
        ordertype == "stop"
        stop_price1 == price_to_precision(pair, stop_price)
    IN  IF dry_run
        THEN Returns(create_dry_run_order(pair, ordertype, side, amount, stop_price1,
                                          leverage, api.dry_id),
                     <<"create_dry_run_order">>,
                     [to |-> "simulator", type |-> ordertype, side |-> side,
                      amount |-> amount, stopPrice |-> stop_price1,
                      orderPrice |-> AbsentNum], 0)
        ELSE
        LET h == SetParams(CopyParams(heap, "t1"), "t1", order_types, limit_rate,
                           stop_price1)
            params == h[ParamsRef("t1")]
            amount1 == LiveAmount(pair, amount)
            req == [to |-> "exchange", type |-> ordertype, side |-> side,
                    amount |-> amount1, stopPrice |-> params.stopPrice,
                    orderPrice |-> params.orderPrice]
        IN  PrepAndSubmit(ordertype, req, api)

\* self._params once a live execution of the stoploss body is over
stoploss_params_after(pair, stop_price, order_types, side) ==
    LET limit_price_pct == IF order_types.ratio = AbsentNum THEN DefaultLimitRatio
                           ELSE order_types.ratio
        limit_rate == LimitRate(stop_price, limit_price_pct, side)
    IN  DropLocal(SetParams(CopyParams(heap, "t1"), "t1", order_types, limit_rate,
                            price_to_precision(pair, stop_price)), "t1")

(***************************************************************************)
(* Ftx.fetch_stoploss_order                                                *)
(***************************************************************************)
\* the four assignments that turn the resulting order into the stop order
ReconcileIdFirst(order1, order_id) ==
    LET a == [order1 EXCEPT !.id = order_id]
        b == [a EXCEPT !.id_stop = a.id]
        c == [b EXCEPT !.type = "stop"]
    IN  [c EXCEPT !.status_stop = "triggered"]

Reconcile(order1, order_id) ==
    LET a == [order1 EXCEPT !.id_stop = order1.id]
        b == [a EXCEPT !.id = order_id]
        c == [b EXCEPT !.type = "stop"]
    IN  [c EXCEPT !.status_stop = "triggered"]

\* the test that the id resolves to exactly one stop order
UniqueMatchAtLeastOne(order) == Len(order) >= 1

UniqueMatch(order) == Len(order) = 1

\* the matched order is a trigger order that was triggered
IsTriggeredNotOpen(order0) == Get(order0.status) # "open"

IsTriggered(order0) == Get(order0.status) = "closed"

\* the branch for a triggered order: fetch the resulting order and reconcile
FetchTriggeredLenient(order0, order_id, pair, api) ==
    LET real_order_id == Get(order0.orderId)
        r == api_fetch_order(real_order_id, pair, api.fetch_order)
    IN  IF r.exc # "None"
        THEN Returns(order0, <<"fetch_orders", "fetch_order">>, NoRequest, 1)
        ELSE Returns(Reconcile(r.val, order_id),
                     <<"fetch_orders", "fetch_order">>, NoRequest, 1)

FetchTriggered(order0, order_id, pair, api) ==
    LET real_order_id == Get(order0.orderId)
        r == api_fetch_order(real_order_id, pair, api.fetch_order)
    IN  IF r.exc # "None"
        THEN Raises(FetchHandlers, r.exc,
                    <<"fetch_orders", "fetch_order">>, NoRequest, 1)
        ELSE Returns(Reconcile(r.val, order_id),
                     <<"fetch_orders", "fetch_order">>, NoRequest, 1)

fetch_stoploss_order(order_id, pair, api) ==
    IF dry_run THEN fetch_dry_run_order(order_id)
    ELSE IF api.fetch_orders # "None"
    THEN Raises(FetchHandlers, api.fetch_orders, <<"fetch_orders">>, NoRequest, 0)
    ELSE
    LET orders == api_fetch_orders(pair)
        order == SelectSeq(orders, LAMBDA o : o.id = order_id)
    IN  IF UniqueMatch(order)
        THEN IF IsTriggered(order[1])
             THEN FetchTriggered(order[1], order_id, pair, api)
             ELSE Returns(order[1], <<"fetch_orders">>, NoRequest, 1)
        ELSE Raises(FetchHandlers, "InvalidOrderException", <<"fetch_orders">>,
                    NoRequest, Len(order))

(***************************************************************************)
(* Ftx.cancel_stoploss_order                                               *)
(***************************************************************************)
cancel_stoploss_order_live(order_id, pair, api) ==
    IF api.cancel_order.exc # "None"
    THEN Raises(CancelHandlers, api.cancel_order.exc, <<"cancel_order">>, NoRequest, 0)
    ELSE Returns(api.cancel_order.val, <<"cancel_order">>, NoRequest, 0)

cancel_stoploss_order(order_id, pair, api) ==
    IF dry_run THEN Returns(EmptyDict, <<>>, NoRequest, 0)
    ELSE IF api.cancel_order.exc # "None"
    THEN Raises(CancelHandlers, api.cancel_order.exc, <<"cancel_order">>, NoRequest, 0)
    ELSE Returns(api.cancel_order.val, <<"cancel_order">>, NoRequest, 0)

(***************************************************************************)
(* The retrier decorator and the retry counts the methods are given        *)
(***************************************************************************)
API_RETRY_COUNT == 4
API_FETCH_ORDER_RETRY_COUNT == 5
StoplossRetriesDefault == API_RETRY_COUNT
StoplossRetries == 0

Retries ==
    [stoploss |-> StoplossRetries,
     fetch_stoploss_order |-> API_FETCH_ORDER_RETRY_COUNT,
     cancel_stoploss_order |-> API_RETRY_COUNT]

\* except (TemporaryError, RetryableOrderError); DDosProtection is a TemporaryError
Retryable(exc) == exc \in {"TemporaryError", "DDosProtection", "RetryableOrderError"}

\* the wrapper's decision once the wrapped body has run with cnt retries left
retrier(out, cnt) ==
    IF out.kind = "return" THEN "returned"
    ELSE IF Retryable(out.exc) /\ cnt > 0 THEN "running"
    ELSE "raised"

(***************************************************************************)
(* State machine: a caller invokes one decorated method at a time; the     *)
(* wrapper runs the body until it returns, raises, or runs out of retries. *)
(* The exchange may trigger an open stop order at any moment.  trace holds *)
(* the collaborators the latest execution of the body invoked, in order.   *)
(***************************************************************************)
Transport == {"create_order", "fetch_orders", "fetch_order", "cancel_order"}

\* the ids a caller asks for: those the exchange hands out when live, those
\* of the simulator and one it never handed out in dry-run mode
OrderIds == IF dry_run THEN DryIds \cup {"A"} ELSE StopIds
Amounts == {13}
StopPrices == {10000, 10300}
OrderTypesConfig == [stoploss : {Absent, "market", "limit"}, ratio : {AbsentNum, 95}]

OpenStop(id) == Order(id, "stop", "open", Absent, Absent, Absent)

RECURSIVE SeqsUpTo(_, _)
SeqsUpTo(S, n) ==
    IF n = 0 THEN {<<>>}
    ELSE LET shorter == SeqsUpTo(S, n - 1)
         IN  shorter \cup {Append(q, x) : q \in {t \in shorter : Len(t) = n - 1}, x \in S}

NoArgs == [order_id |-> Null, amount |-> 0, stop_price |-> 0,
           order_types |-> [stoploss |-> Absent, ratio |-> AbsentNum], side |-> Absent]

\* a caller of stoploss whose steps interleave with another caller's
IdleCaller == [pc |-> "idle", order_types |-> [stoploss |-> Absent, ratio |-> AbsentNum],
               side |-> Absent, amount |-> 0, stop_price |-> 0, limit_rate |-> 0,
               sent |-> NoRequest, raised |-> "None", during |-> Null]

\* what the caller has learnt from get_order_id_conditional about an order
NoHandle == [order_id |-> Null, open_id |-> Null, triggered_id |-> Null]

NoPrice == [str |-> FALSE, num |-> 0, digits |-> <<>>]

Priced(o, p) ==
    [id |-> o.id, type |-> o.type, status |-> o.status, orderId |-> o.orderId,
     id_stop |-> o.id_stop, status_stop |-> o.status_stop, price |-> p]

NoPf == [fn |-> "none", stop_loss |-> 0, order |-> Priced(EmptyDict, NoPrice),
         value |-> 0, side |-> Absent, adjust |-> FALSE, id |-> Null]

Occurrences(tr, c) == Cardinality({i \in DOMAIN tr : tr[i] = c})

Init ==
    /\ dry_run \in BOOLEAN
    /\ stops \in SeqsUpTo({OpenStop(id) : id \in StopIds}, MaxStops)
    /\ dry_run => stops = <<>>
    /\ dry_orders = {}
    /\ op = "none"
    /\ pc = "idle"
    /\ args = NoArgs
    /\ count = 0
    /\ attempts = 0
    /\ trace = <<>>
    /\ last_exc = "None"
    /\ raised = "None"
    /\ result = EmptyDict
    /\ request = NoRequest
    /\ matched = 0
    /\ was_canceled = FALSE
    /\ seen = <<>>
    /\ lev_exc = "None"
    /\ heap = [r \in Refs |-> DefaultParams]
    /\ thr = [t \in Callers |-> IdleCaller]
    /\ handle = NoHandle
    /\ pf = NoPf

\* the caller enters the wrapper of method m with arguments a
Enter(m, a) ==
    /\ pc # "running"
    /\ op' = m
    /\ pc' = "running"
    /\ args' = a
    /\ count' = Retries[m]
    /\ attempts' = 0
    /\ trace' = <<>>
    /\ last_exc' = "None"
    /\ raised' = "None"
    /\ result' = EmptyDict
    /\ request' = NoRequest
    /\ matched' = 0
    /\ seen' = <<>>
    /\ lev_exc' = "None"
    /\ UNCHANGED <<dry_run, stops, dry_orders, heap, thr, pf>>

\* the wrapper has run the body once with outcome out
Leave(out) ==
    /\ attempts' = attempts + 1
    /\ trace' = out.trace
    /\ last_exc' = out.cexc
    /\ raised' = out.exc
    /\ result' = out.val
    /\ request' = out.req
    /\ matched' = out.n
    /\ pc' = retrier(out, count)
    /\ count' = IF retrier(out, count) = "running" THEN count - 1 ELSE count
    /\ UNCHANGED <<dry_run, op, args, was_canceled, thr, handle, pf>>

StoplossCall ==
    /\ IF dry_run THEN Cardinality(dry_orders) < MaxDryOrders ELSE Len(stops) < MaxStops
    /\ \E amount \in Amounts, stop_price \in StopPrices,
          order_types \in OrderTypesConfig, side \in {"sell", "buy"} :
          Enter("stoploss", [NoArgs EXCEPT !.amount = amount, !.stop_price = stop_price,
                                           !.order_types = order_types, !.side = side])
    /\ was_canceled' = FALSE
    /\ handle' = handle

StoplossAttempt ==
    /\ op = "stoploss" /\ pc = "running"
    /\ seen' = <<>>
    /\ \E api \in StoplossAnswers(IF dry_run THEN DryIds \ dry_orders ELSE {Null}) :
          LET did == api.dry_id
              out == stoploss("PAIR", args.amount, args.stop_price, args.order_types,
                              args.side, 1, api)
          IN  /\ Leave(out)
              /\ stops' = IF ~dry_run /\ out.kind = "return"
                          THEN Append(stops, out.val) ELSE stops
              /\ dry_orders' = IF dry_run THEN dry_orders \cup {did} ELSE dry_orders
              /\ lev_exc' = IF Occurrences(out.trace, "_lev_prep") > 0
                             THEN api.lev_prep ELSE "None"
              /\ heap' = IF dry_run THEN heap
                          ELSE stoploss_params_after("PAIR", args.stop_price,
                                                     args.order_types, args.side)

FetchCall ==
    /\ \E order_id \in OrderIds : Enter("fetch_stoploss_order",
                                        [NoArgs EXCEPT !.order_id = order_id])
    /\ was_canceled' = FALSE
    /\ handle' = handle

FetchAttempt ==
    /\ op = "fetch_stoploss_order" /\ pc = "running"
    /\ \E api \in FetchAnswers :
          /\ Leave(fetch_stoploss_order(args.order_id, "PAIR", api))
          /\ seen' = IF ~dry_run /\ api.fetch_orders = "None"
                      THEN api_fetch_orders("PAIR") ELSE <<>>
    /\ UNCHANGED <<stops, dry_orders, lev_exc, heap>>

IsCanceled(order_id) ==
    /\ \E i \in DOMAIN stops : stops[i].id = order_id
    /\ \A i \in DOMAIN stops : stops[i].id = order_id => stops[i].status = "canceled"

CancelCall ==
    /\ \E order_id \in OrderIds :
          /\ Enter("cancel_stoploss_order", [NoArgs EXCEPT !.order_id = order_id])
          /\ was_canceled' = IsCanceled(order_id)
    /\ handle' = handle

CancelAttempt ==
    /\ op = "cancel_stoploss_order" /\ pc = "running"
    /\ seen' = <<>>
    /\ \E api \in CancelAnswers(args.order_id) :
          LET out == cancel_stoploss_order(args.order_id, "PAIR", api)
          IN  /\ Leave(out)
              /\ stops' = IF ~dry_run /\ out.kind = "return"
                          THEN [i \in DOMAIN stops |->
                                   IF stops[i].id = args.order_id /\ stops[i].status = "open"
                                   THEN [stops[i] EXCEPT !.status = "canceled"]
                                   ELSE stops[i]]
                          ELSE stops
    /\ UNCHANGED <<dry_orders, lev_exc, heap>>

\* the exchange triggers an open stop order: the conditional record closes
\* and refers to the order that results from it
ExchangeTrigger ==
    /\ \E i \in DOMAIN stops, rid \in ResultIds \cup {Absent} :
          /\ stops[i].status = "open"
          /\ stops' = [stops EXCEPT ![i] = [@ EXCEPT !.status = "closed", !.orderId = rid]]
    /\ UNCHANGED <<dry_run, dry_orders, heap, thr, handle, pf>>
    /\ UNCHANGED callvars

Next ==
    \/ StoplossCall
    \/ StoplossAttempt
    \/ FetchCall
    \/ FetchAttempt
    \/ CancelCall
    \/ CancelAttempt
    \/ ExchangeTrigger

Spec == Init /\ [][Next]_vars

\* Fetch and cancel calls alone.  The wrapper is a synchronous loop: a call
\* that is running goes on to its next execution of the body.
NextRetry ==
    \/ FetchCall
    \/ FetchAttempt
    \/ CancelCall
    \/ CancelAttempt
    \/ ExchangeTrigger

SpecRetry == Init /\ [][NextRetry]_vars /\ WF_vars(FetchAttempt \/ CancelAttempt)

(***************************************************************************)
(* A caller that keeps, for the order it fetches, what                     *)
(* get_order_id_conditional makes of each record fetch returned, and that  *)
(* fetches again with the identifier it was given.                         *)
(***************************************************************************)
KeepHandle ==
    /\ op = "fetch_stoploss_order" /\ pc = "returned" /\ ~dry_run
    /\ LET id == get_order_id_conditional(result)
           h == IF handle.order_id = args.order_id THEN handle
                ELSE [NoHandle EXCEPT !.order_id = args.order_id]
       IN  handle' = IF result.status_stop = "triggered"
                     THEN [h EXCEPT !.triggered_id = id]
                     ELSE [h EXCEPT !.open_id = id]
    /\ UNCHANGED <<dry_run, stops, dry_orders, heap, thr, pf>>
    /\ UNCHANGED callvars

FetchByHandle ==
    /\ ~dry_run
    /\ \E order_id \in {handle.open_id, handle.triggered_id} \ {Null} :
          Enter("fetch_stoploss_order", [NoArgs EXCEPT !.order_id = order_id])
    /\ was_canceled' = FALSE
    /\ handle' = handle

NextHandle ==
    \/ FetchCall
    \/ FetchAttempt
    \/ ExchangeTrigger
    \/ KeepHandle
    \/ FetchByHandle

SpecHandle == Init /\ [][NextHandle]_vars

(***************************************************************************)
(* Two live stoploss calls whose steps interleave: each binds params,      *)
(* fills it and hands it to create_order.                                  *)
(***************************************************************************)
InFlight(t) == thr[t].pc \in {"copy", "set", "submit"}

\* the order-type configurations the interleaved callers pass
OverlapConfig == {ot \in OrderTypesConfig : ot.ratio = AbsentNum}
OverlapSides == {"sell"}

CallerBegin(t) ==
    /\ ~dry_run
    /\ thr[t].pc \in {"idle", "done"}
    /\ Len(stops) + Cardinality({u \in Callers : InFlight(u)}) < MaxStops
    /\ \E amount \in Amounts, stop_price \in StopPrices,
          order_types \in OverlapConfig, side \in OverlapSides :
          LET limit_price_pct == IF order_types.ratio = AbsentNum
                                 THEN DefaultLimitRatio ELSE order_types.ratio
              during == {u \in Callers \ {t} :
                            InFlight(u) /\ thr[u].order_types.stoploss = "limit"}
          IN  thr' = [thr EXCEPT ![t] =
                         [pc |-> "copy", order_types |-> order_types, side |-> side,
                          amount |-> amount,
                          stop_price |-> price_to_precision("PAIR", stop_price),
                          limit_rate |-> LimitRate(stop_price, limit_price_pct, side),
                          sent |-> NoRequest, raised |-> "None",
                          during |-> IF during = {} THEN Null ELSE "limit"]]
    /\ UNCHANGED <<dry_run, stops, dry_orders, heap, handle, pf>>
    /\ UNCHANGED callvars

CallerCopy(t) ==
    /\ thr[t].pc = "copy"
    /\ heap' = CopyParams(heap, t)
    /\ thr' = [thr EXCEPT ![t].pc = "set"]
    /\ UNCHANGED <<dry_run, stops, dry_orders, handle, pf>>
    /\ UNCHANGED callvars

CallerSet(t) ==
    /\ thr[t].pc = "set"
    /\ heap' = SetParams(heap, t, thr[t].order_types, thr[t].limit_rate, thr[t].stop_price)
    /\ thr' = [thr EXCEPT ![t].pc = "submit"]
    /\ UNCHANGED <<dry_run, stops, dry_orders, handle, pf>>
    /\ UNCHANGED callvars

\* amount rounding, _lev_prep and create_order with the params the local
\* name denotes; the wrapper has no retry for stoploss, so the call ends
CallerSubmit(t) ==
    /\ thr[t].pc = "submit"
    /\ \E api \in StoplossAnswers({Null}) :
          LET params == heap[ParamsRef(t)]
              req == [to |-> "exchange", type |-> "stop", side |-> thr[t].side,
                      amount |-> LiveAmount("PAIR", thr[t].amount),
                      stopPrice |-> params.stopPrice,
                      orderPrice |-> params.orderPrice]
              out == PrepAndSubmit("stop", req, api)
          IN  /\ thr' = [thr EXCEPT ![t].pc = "done", ![t].sent = out.req,
                                     ![t].raised = out.exc]
              /\ stops' = IF out.kind = "return" THEN Append(stops, out.val) ELSE stops
    /\ heap' = DropLocal(heap, t)
    /\ UNCHANGED <<dry_run, dry_orders, handle, pf>>
    /\ UNCHANGED callvars

InitOverlap == Init /\ ~dry_run /\ stops = <<>>

NextOverlap ==
    \/ \E t \in Callers : CallerBegin(t)
    \/ \E t \in Callers : CallerCopy(t)
    \/ \E t \in Callers : CallerSet(t)
    \/ \E t \in Callers : CallerSubmit(t)

SpecOverlap == InitOverlap /\ [][NextOverlap]_vars

(***************************************************************************)
(* The two methods without side effects, applied to bounded inputs         *)
(***************************************************************************)
PriceValues == (0..MaxPrice) \cup {10, 10 + MaxPrice}

\* the decimal digits of a natural number
RECURSIVE Decimal(_)
Decimal(n) == IF n < 10 THEN <<n>> ELSE Append(Decimal(n \div 10), n % 10)

\* a price of value n as the exchange may hand it over: a number or a string
PriceOf(n, asString) ==
    IF asString THEN [str |-> TRUE, num |-> 0, digits |-> Decimal(n)]
    ELSE [str |-> FALSE, num |-> n, digits |-> <<>>]

ResolveInputs ==
    {Order(id, t, "open", Absent, ids, Absent) :
        id \in StopIds, t \in OrderTypes, ids \in ResultIds \cup {Absent, Null}}
    \cup {Reconcile(Order(b, t, "closed", Absent, Absent, Absent), a) :
            a \in StopIds, b \in ResultIds, t \in {"market", "limit"}}

InitPure == Init /\ ~dry_run /\ stops = <<>>

AdjustCheck ==
    /\ \E stop_loss \in PriceValues, n \in PriceValues, asString \in BOOLEAN,
          t \in OrderTypes, side \in Sides :
          LET order == Priced(Order("A", t, "open", Absent, Absent, Absent),
                              PriceOf(n, asString))
          IN  pf' = [fn |-> "stoploss_adjust", stop_loss |-> stop_loss, order |-> order,
                     value |-> n, side |-> side,
                     adjust |-> stoploss_adjust(stop_loss, order, side), id |-> Null]
    /\ UNCHANGED <<dry_run, stops, dry_orders, heap, thr, handle>>
    /\ UNCHANGED callvars

ResolveId ==
    /\ \E o \in ResolveInputs :
          LET order == Priced(o, NoPrice)
          IN  pf' = [fn |-> "get_order_id_conditional", stop_loss |-> 0, order |-> order,
                     value |-> 0, side |-> Absent, adjust |-> FALSE,
                     id |-> get_order_id_conditional(order)]
    /\ UNCHANGED <<dry_run, stops, dry_orders, heap, thr, handle>>
    /\ UNCHANGED callvars

NextPure ==
    \/ AdjustCheck
    \/ ResolveId

SpecPure == InitPure /\ [][NextPure]_vars

(***************************************************************************)
(* Properties                                                              *)
(***************************************************************************)
Live(m) == op = m /\ ~dry_run
Done == pc \in {"returned", "raised"}
MatchCount(id) == Cardinality({i \in DOMAIN stops : stops[i].id = id})
\* the orders with the given id in the list the last fetch_orders call answered
SeenMatches(id) == {i \in DOMAIN seen : seen[i].id = id}
TheMatch(id) == seen[CHOOSE i \in SeenMatches(id) : TRUE]

\* C1: a live fetch that found exactly one conditional order with the
\* requested id A, closed and referring to resulting order B, and whose
\* follow-up fetch of B succeeded, returns id = A, id_stop = B, type = stop,
\* status_stop = triggered; B is never the top-level id.
C1_TriggeredFetchKeepsLogicalId ==
    ( /\ Live("fetch_stoploss_order") /\ pc = "returned"
      /\ Cardinality(SeenMatches(args.order_id)) = 1
      /\ TheMatch(args.order_id).status = "closed"
      /\ TheMatch(args.order_id).orderId \in ResultIds )
    => /\ result.id = args.order_id
       /\ result.id_stop = TheMatch(args.order_id).orderId
       /\ result.id # TheMatch(args.order_id).orderId
       /\ result.type = "stop"
       /\ result.status_stop = "triggered"

C1_Witness ==
    /\ Live("fetch_stoploss_order") /\ pc = "returned"
    /\ trace = <<"fetch_orders", "fetch_order">>
    /\ args.order_id = "A" /\ result.id = "A" /\ result.id_stop = "B"

\* C2: a live fetch whose stop-order list holds zero or more than one order
\* with the requested id fails with InvalidOrderException at once: the
\* attempt made the fetch_orders call only, and the wrapper neither retries
\* nor calls the transport again.
C2_AmbiguousIdIsInvalidOrder ==
    ( /\ Live("fetch_stoploss_order") /\ attempts > 0 /\ last_exc = "None"
      /\ MatchCount(args.order_id) # 1 )
    => /\ pc = "raised"
       /\ raised = "InvalidOrderException"
       /\ ~Retryable(raised)
       /\ trace = <<"fetch_orders">>
       /\ matched = MatchCount(args.order_id)

C2_Witness ==
    /\ Live("fetch_stoploss_order") /\ pc = "raised"
    /\ MatchCount(args.order_id) = 2 /\ raised = "InvalidOrderException"

\* C3: one create call submits at most one order: whatever create_order
\* answers, the body runs once, and a transport failure ends the call with
\* its classified error.
C3_CreateSubmitsAtMostOnce ==
    op = "stoploss"
    => /\ Occurrences(trace, "create_order") <= 1
       /\ attempts <= 1
       /\ attempts = 1 => Done
       /\ last_exc # "None" => (pc = "raised" /\ raised # "None")

C3_Witness ==
    /\ Live("stoploss") /\ pc = "raised" /\ Occurrences(trace, "create_order") = 1
    /\ last_exc = "DDoSProtection" /\ raised = "DDosProtection"

\* C4: stoploss_adjust is true exactly when the order type is stop and the
\* new stop is above the order price on a sell or below it on a buy; false
\* for other types, for equal prices and for other sides; no transport call.
C4_AdjustRule ==
    pf.fn = "stoploss_adjust"
    => /\ pf.adjust <=> ( /\ pf.order.type = "stop"
                          /\ \/ pf.side = "sell" /\ pf.stop_loss > pf.value
                             \/ pf.side = "buy" /\ pf.stop_loss < pf.value )
       /\ pf.order.type # "stop" => ~pf.adjust
       /\ pf.stop_loss = pf.value => ~pf.adjust
       /\ pf.side \notin {"sell", "buy"} => ~pf.adjust
       /\ trace = <<>> /\ attempts = 0 /\ op = "none"

C4_Witness ==
    /\ pf.fn = "stoploss_adjust" /\ pf.adjust /\ pf.side = "buy"
    /\ pf.order.price.str /\ pf.value = 10 /\ pf.stop_loss = MaxPrice

\* C5: in dry-run mode no call sequence invokes the transport or the
\* leverage preparation; create and fetch use the simulator only and cancel
\* returns an empty dict.
C5_DryRunNeverTouchesTransport ==
    dry_run
    => /\ \A c \in Transport \cup {"_lev_prep"} : Occurrences(trace, c) = 0
       /\ (op = "stoploss" /\ attempts > 0) => trace = <<"create_dry_run_order">>
       /\ (op = "fetch_stoploss_order" /\ attempts > 0) => trace = <<"fetch_dry_run_order">>
       /\ (op = "cancel_stoploss_order" /\ attempts > 0)
             => (pc = "returned" /\ result = EmptyDict /\ trace = <<>>)

C5_Witness ==
    /\ dry_run /\ op = "cancel_stoploss_order" /\ pc = "returned"
    /\ dry_orders # {}

\* C6 as stated: in every operation an insufficient-funds transport failure
\* is surfaced as InsufficientFundsError at once and never retried.
C6_Original ==
    last_exc = "InsufficientFunds"
    => (pc = "raised" /\ raised = "InsufficientFundsError")

\* C6 amended: in create an insufficient-funds failure is surfaced as
\* InsufficientFundsError at once with no further transport call; fetch and
\* cancel classify it as TemporaryError and retry it within their bound.
C6_FundsFatalInCreateOnly ==
    last_exc = "InsufficientFunds"
    => /\ op = "stoploss"
            => (pc = "raised" /\ raised = "InsufficientFundsError"
                /\ Occurrences(trace, "create_order") <= 1 /\ attempts = 1)
       /\ op \in {"fetch_stoploss_order", "cancel_stoploss_order"}
            => (raised = "TemporaryError"
                /\ (pc = "running" \/ (pc = "raised" /\ attempts = Retries[op] + 1)))

C6_Witness ==
    /\ Live("stoploss") /\ pc = "raised" /\ last_exc = "InsufficientFunds"
    /\ raised = "InsufficientFundsError" /\ Occurrences(trace, "create_order") = 1

\* C7 as stated: a generic exchange error (neither insufficient-funds,
\* invalid-order, rate-limit nor network) is surfaced as OperationalException
\* and never retried.
C7_Original ==
    last_exc \in {"ExchangeError", "BaseError"}
    => (pc = "raised" /\ raised = "OperationalException")

\* C7 amended: only a transport error outside the ExchangeError and
\* NetworkError families is surfaced as OperationalException, at once and
\* without retry; a generic ExchangeError is classified as TemporaryError,
\* surfaced at once by create and retried within the bound by fetch and cancel.
C7_OnlyBaseErrorIsOperational ==
    /\ last_exc = "BaseError" => (pc = "raised" /\ raised = "OperationalException")
    /\ raised = "OperationalException" => (pc = "raised" /\ last_exc = "BaseError")
    /\ last_exc = "ExchangeError"
          => /\ raised = "TemporaryError"
             /\ pc = "running" \/ (pc = "raised" /\ attempts = Retries[op] + 1)

C7_Witness ==
    /\ Live("fetch_stoploss_order") /\ pc = "raised" /\ last_exc = "BaseError"
    /\ raised = "OperationalException" /\ attempts = 2

\* C8: every fetch and cancel call terminates: rate-limit and temporary
\* failures are retried at most the operation's (non-zero) retry count, so a
\* call makes at most retry count + 1 attempts and then surfaces the last
\* classified error (DDosProtection or TemporaryError).
C8_AttemptsBounded ==
    op \in {"fetch_stoploss_order", "cancel_stoploss_order"}
    => /\ Retries[op] > 0
       /\ attempts <= Retries[op] + 1
       /\ attempts + count = Retries[op] + (IF pc = "running" THEN 0 ELSE 1)
       /\ (attempts > 0 /\ last_exc \in {"NetworkError", "DDoSProtection"})
             => /\ raised = (IF last_exc = "DDoSProtection" THEN "DDosProtection"
                             ELSE "TemporaryError")
                /\ pc = "running" \/ (pc = "raised" /\ attempts = Retries[op] + 1)

C8_BoundedRetriesTerminate ==
    /\ []C8_AttemptsBounded
    /\ (pc = "running" /\ op \in {"fetch_stoploss_order", "cancel_stoploss_order"})
          ~> Done

C8_Witness ==
    /\ Live("cancel_stoploss_order") /\ pc = "raised"
    /\ attempts = API_RETRY_COUNT + 1 /\ trace = <<"cancel_order">>
    /\ last_exc = "DDoSProtection" /\ raised = "DDosProtection"

\* C9 as stated: a second cancel of an order that is already canceled never
\* surfaces InsufficientFundsError or InvalidOrderException, whatever the
\* exchange answers.
C9_Original ==
    (Live("cancel_stoploss_order") /\ was_canceled /\ pc = "raised")
    => raised \notin {"InsufficientFundsError", "InvalidOrderException"}

\* C9 amended: a second cancel of an already canceled order never surfaces
\* InsufficientFundsError; it surfaces InvalidOrderException exactly when the
\* exchange answers the cancel request with an invalid-order error.
C9_SecondCancelFollowsExchange ==
    (Live("cancel_stoploss_order") /\ was_canceled /\ attempts > 0)
    => /\ raised # "InsufficientFundsError"
       /\ raised = "InvalidOrderException" <=> IsInstance(last_exc, "InvalidOrder")
       /\ raised = "InvalidOrderException" => pc = "raised"
       /\ last_exc = "None" => pc = "returned"

C9_Witness ==
    /\ Live("cancel_stoploss_order") /\ was_canceled /\ pc = "raised"
    /\ last_exc = "InsufficientFunds" /\ raised = "TemporaryError"

\* C10: get_order_id_conditional returns id_stop for a stop order that has
\* a non-null id_stop, id for a stop order without one, and id for every
\* other type even when id_stop is there; the reconciled record
\* {id: A, id_stop: B, type: stop} yields B.
C10_LogicalIdRule ==
    pf.fn = "get_order_id_conditional"
    => /\ (pf.order.type = "stop" /\ pf.order.id_stop \notin {Absent, Null})
             => pf.id = pf.order.id_stop
       /\ (pf.order.type = "stop" /\ pf.order.id_stop \in {Absent, Null})
             => pf.id = pf.order.id
       /\ pf.order.type # "stop" => pf.id = pf.order.id
       /\ (pf.order.id = "A" /\ pf.order.id_stop = "B" /\ pf.order.type = "stop")
             => pf.id = "B"

C10_Witness ==
    /\ pf.fn = "get_order_id_conditional" /\ pf.order.status_stop = "triggered"
    /\ pf.order.id = "A" /\ pf.order.id_stop = "B" /\ pf.id = "B"

\* C11 as stated: the identifier get_order_id_conditional gives for the
\* record fetched before the trigger and for the record fetched after it
\* are the same.
C11_Original ==
    (handle.open_id # Null /\ handle.triggered_id # Null)
    => handle.open_id = handle.triggered_id

\* C11: for the record fetched before the trigger the helper gives the stop
\* order's own id; for the reconciled record fetched after the trigger it
\* gives the id of the resulting order, which differs; a fetch called with
\* the resulting order's id matches no stop order and ends with
\* InvalidOrderException, while the top-level id of both records is the
\* requested id.
C11_HandleFollowsResultingOrder ==
    /\ handle.open_id # Null => handle.open_id = handle.order_id
    /\ handle.triggered_id # Null =>
          /\ handle.triggered_id # handle.order_id
          /\ \E i \in DOMAIN stops : /\ stops[i].id = handle.order_id
                                     /\ stops[i].orderId = handle.triggered_id
    /\ (Live("fetch_stoploss_order") /\ pc = "returned") => result.id = args.order_id
    /\ ( /\ Live("fetch_stoploss_order") /\ attempts > 0 /\ last_exc = "None"
         /\ handle.triggered_id # Null /\ args.order_id = handle.triggered_id )
       => (pc = "raised" /\ raised = "InvalidOrderException")

C11_Witness ==
    /\ handle.order_id = "A" /\ handle.open_id = "A" /\ handle.triggered_id = "B"
    /\ Live("fetch_stoploss_order") /\ args.order_id = "B"
    /\ pc = "raised" /\ raised = "InvalidOrderException"

\* C12: in a live limit-type create the execution limit price is the raw
\* trigger price times the ratio on a sell and times (2 - ratio) on a buy,
\* the ratio being the configured one or 0.99; a trigger of 100.00 with the
\* default ratio gives 99.00 on a sell and 101.00 on a buy.
C12_LimitRateFromRawTrigger ==
    ( /\ Live("stoploss") /\ attempts > 0 /\ request.to = "exchange"
      /\ args.order_types.stoploss = "limit" )
    => LET ratio == IF args.order_types.ratio = AbsentNum THEN 99
                    ELSE args.order_types.ratio
       IN  /\ args.side = "sell" => request.orderPrice * 100 = args.stop_price * ratio
           /\ args.side # "sell"
                 => request.orderPrice * 100 = args.stop_price * (200 - ratio)
           /\ (args.stop_price = 10000 /\ ratio = 99)
                 => request.orderPrice = IF args.side = "sell" THEN 9900 ELSE 10100

C12_Witness ==
    /\ Live("stoploss") /\ pc = "returned" /\ request.to = "exchange"
    /\ args.order_types = [stoploss |-> "limit", ratio |-> AbsentNum]
    /\ args.side = "buy" /\ args.stop_price = 10300
    /\ request.stopPrice = 10500 /\ request.orderPrice = 10403

\* C13: the parameters a live create submits always carry the trigger price
\* rounded to the price tick, and carry orderPrice exactly when the
\* configured stoploss type is 'limit' (not for 'market', not when absent).
C13_ParamsCarryStopPrice ==
    (Live("stoploss") /\ attempts > 0 /\ request.to = "exchange")
    => /\ request.stopPrice # AbsentNum
       /\ request.stopPrice % PriceTick = 0
       /\ 2 * (request.stopPrice - args.stop_price) <= PriceTick
       /\ 2 * (args.stop_price - request.stopPrice) <= PriceTick
       /\ request.orderPrice # AbsentNum <=> args.order_types.stoploss = "limit"

C13_Witness ==
    /\ Live("stoploss") /\ pc = "returned" /\ request.to = "exchange"
    /\ args.order_types.stoploss = Absent /\ args.stop_price = 10300
    /\ request.stopPrice = 10500 /\ request.orderPrice = AbsentNum

\* C14: create works on a copy of the default parameters: however two
\* create calls follow or overlap each other, self._params keeps its default
\* value and every call that reaches create_order submits its own trigger
\* price, with orderPrice (its own limit price) exactly when its own
\* stoploss type is 'limit'; a call that raised before create_order
\* submitted nothing.
C14_DefaultsNeverShared ==
    /\ heap["self"] = DefaultParams
    /\ \A t \in Callers :
          thr[t].pc = "done"
          => /\ thr[t].sent.to \in {"exchange", "nobody"}
             /\ thr[t].sent.to = "nobody" => thr[t].raised # "None"
             /\ thr[t].sent.to = "exchange"
                   => /\ thr[t].sent.stopPrice = thr[t].stop_price
                      /\ thr[t].order_types.stoploss = "limit"
                            => thr[t].sent.orderPrice = thr[t].limit_rate
                      /\ thr[t].order_types.stoploss # "limit"
                            => thr[t].sent.orderPrice = AbsentNum

C14_Witness ==
    /\ thr["t1"].pc = "done" /\ thr["t1"].order_types.stoploss = "market"
    /\ thr["t1"].during = "limit" /\ thr["t1"].raised = "None"
    /\ thr["t1"].sent.to = "exchange" /\ thr["t1"].sent.orderPrice = AbsentNum
    /\ thr["t2"].pc = "done" /\ thr["t2"].order_types.stoploss = "limit"
    /\ thr["t2"].raised = "None" /\ thr["t2"].sent.orderPrice = thr["t2"].limit_rate
    /\ Len(stops) = 2

\* C15: a live fetch whose conditional-order query answered exactly one
\* order with the requested id, not closed, returns that record as it is (id
\* as requested, no id_stop, no triggered marker); fetch_orders is the only
\* transport call of that execution.
C15_UntriggeredReturnedAsIs ==
    ( /\ Live("fetch_stoploss_order") /\ attempts > 0
      /\ Cardinality(SeenMatches(args.order_id)) = 1
      /\ TheMatch(args.order_id).status # "closed" )
    => /\ pc = "returned"
       /\ result = TheMatch(args.order_id)
       /\ result.id = args.order_id
       /\ result.id_stop = Absent /\ result.status_stop = Absent
       /\ trace = <<"fetch_orders">>

C15_Witness ==
    /\ Live("fetch_stoploss_order") /\ pc = "returned" /\ trace = <<"fetch_orders">>
    /\ Cardinality(SeenMatches(args.order_id)) = 1
    /\ result.status = "canceled" /\ result.id = args.order_id

\* C16: when the follow-up fetch of the resulting order fails, a live fetch
\* does not return: the failure is classified, a retryable one starts the
\* next execution (which begins again with fetch_orders) while retries are
\* left, any other ends the call with the typed error; a fetch that returns
\* for a closed match always carries the triggered marker.
C16_FailedFollowUpNeverReturns ==
    /\ ( /\ Live("fetch_stoploss_order") /\ attempts > 0
         /\ trace = <<"fetch_orders", "fetch_order">> /\ last_exc # "None" )
       => /\ pc # "returned"
          /\ raised \in {"InvalidOrderException", "DDosProtection", "TemporaryError",
                         "OperationalException"}
          /\ pc = "running" => raised \in {"DDosProtection", "TemporaryError"}
          /\ raised \in {"InvalidOrderException", "OperationalException"}
                => pc = "raised"
          /\ pc = "raised" /\ raised \in {"DDosProtection", "TemporaryError"}
                => attempts = API_FETCH_ORDER_RETRY_COUNT + 1
    /\ (Live("fetch_stoploss_order") /\ attempts > 0) => trace[1] = "fetch_orders"
    /\ ( /\ Live("fetch_stoploss_order") /\ pc = "returned"
         /\ Cardinality(SeenMatches(args.order_id)) = 1
         /\ TheMatch(args.order_id).status = "closed" )
       => result.status_stop = "triggered"

C16_Witness ==
    /\ Live("fetch_stoploss_order") /\ pc = "running" /\ attempts = 2
    /\ trace = <<"fetch_orders", "fetch_order">> /\ last_exc = "NetworkError"
    /\ raised = "TemporaryError"
    /\ Cardinality(SeenMatches(args.order_id)) = 1
    /\ TheMatch(args.order_id).status = "closed"

\* C17 as stated: in both modes the amount the order is produced with is a
\* multiple of the amount step.
C17_Original ==
    (op = "stoploss" /\ attempts > 0 /\ request.to \in {"simulator", "exchange"})
    => request.amount % AmountStep = 0

\* C17: the trigger price is rounded in both modes; the amount is rounded
\* (down to the amount step) only on the live path, before submission; the
\* dry-run simulator is handed the amount exactly as the caller gave it.
C17_AmountRoundedOnLivePathOnly ==
    (op = "stoploss" /\ attempts > 0 /\ request.to \in {"simulator", "exchange"})
    => /\ request.stopPrice % PriceTick = 0
       /\ request.to = "exchange"
             => /\ request.amount % AmountStep = 0
                /\ request.amount <= args.amount
                /\ args.amount - request.amount < AmountStep
       /\ request.to = "simulator" => request.amount = args.amount

C17_Witness ==
    /\ dry_run /\ op = "stoploss" /\ pc = "returned" /\ request.to = "simulator"
    /\ args.amount = 13 /\ request.amount = 13
    /\ args.stop_price = 10300 /\ request.stopPrice = 10500

\* C18: every live execution of create starts with the leverage/margin
\* preparation; create_order is invoked only after it completed, and when
\* the preparation fails create_order is not invoked and the call raises.
C18_PrepBeforeSubmit ==
    (Live("stoploss") /\ attempts > 0)
    => /\ trace[1] = "_lev_prep"
       /\ lev_exc # "None"
             => /\ Occurrences(trace, "create_order") = 0
                /\ request.to = "nobody"
                /\ pc = "raised"
       /\ Occurrences(trace, "create_order") > 0
             => (trace = <<"_lev_prep", "create_order">> /\ lev_exc = "None")

C18_Witness ==
    /\ Live("stoploss") /\ pc = "raised" /\ lev_exc = "InsufficientFunds"
    /\ raised = "InsufficientFundsError"
    /\ trace = <<"_lev_prep">> /\ request = NoRequest

====
